---- MODULE Spec2Model ----
(***************************************************************************)
(* Model of the umrah-plan data editor (tools/data-editor.js): the HTTP    *)
(* API of the editor service, the single-page editor that drives it, and   *)
(* the dua selection engine the specification describes.                   *)
(*                                                                         *)
(* Three specifications share the variables:                               *)
(*   Spec        raw HTTP requests against handleApi                       *)
(*   SpecEditor  two browser sessions of the SPA against the same server   *)
(*   SpecSelect  selectDuasForRound / invalidateSelection                  *)
(*                                                                         *)
(* A content document is a mapping from entry ids to entries.  An entry is *)
(* abstracted to the value of one schema-typed integer field (a theme's    *)
(* duas.count, a round's number): that is enough to tell a schema-valid    *)
(* document from an invalid one and to follow a value through              *)
(* JSON.parse / JSON.stringify.                                            *)
(***************************************************************************)
EXTENDS Integers, Sequences, FiniteSets, TLC

VARIABLES
    alive,       \* the node process is running (an uncaught exception ends it)
    files,       \* src/data/*.json: fileKey -> text on disk
    validators,  \* const validators = {}: the keys with a compiled validator
    conns,       \* HTTP connections: the request in flight and its response
    accepted,    \* history: per fileKey, the text of the last write that passed validation
    nreq,        \* history: the number of requests received so far
    state,       \* SPA: per session, const state = {file, data, selectedKey}
    statusEl,    \* SPA: per session, what the status element shows
    readDoc,     \* SPA: per session, the document loadFile last received
    ops,         \* history: per session, the number of user actions so far
    theme,       \* selection engine: the theme of the rounds
    cache,       \* selection engine: state.selectedDuas, roundKey -> ids
    call         \* selection engine: the last call and what it returned

vars == <<alive, files, validators, conns, accepted, nreq, state, statusEl, readDoc, ops,
          theme, cache, call>>

serverVars == <<alive, files, validators, conns, accepted, nreq>>
editorVars == <<state, statusEl, readDoc, ops>>
selectVars == <<theme, cache, call>>

(***************************************************************************)
(* Bounds                                                                  *)
(***************************************************************************)
MaxRequests == 2
MaxSessionOps == 4
MaxIds == 3

Conn == {"c1", "c2"}

(***************************************************************************)
(* FILES / SCHEMAS and property lookup on a plain object                   *)
(***************************************************************************)
FILES == [duas |-> "duas.json", themes |-> "themes.json", rounds |-> "rounds.json"]

SCHEMAS == [duas |-> "duas.schema.json", themes |-> "themes.schema.json",
            rounds |-> "rounds.schema.json"]

FileKeys == DOMAIN FILES

\* Properties every object literal inherits from Object.prototype.
ObjectPrototype == {"constructor", "toString", "__proto__", "hasOwnProperty", "valueOf"}

\* table[key] in JavaScript: an own property, an inherited one, or undefined.
Lookup(table, key) ==
    IF key \in DOMAIN table THEN [type |-> "string", value |-> table[key]]
    ELSE IF key \in ObjectPrototype THEN [type |-> "inherited", value |-> key]
    ELSE [type |-> "undefined", value |-> ""]

\* !filename
Falsy(v) == v.type = "undefined"

\* path.join(dir, name) throws a TypeError unless name is a string.
PathJoinThrows(v) == v.type # "string"

(***************************************************************************)
(* JSON texts and JavaScript values                                        *)
(***************************************************************************)
\* The entry ids of the documents tried.
Ids == {"a", "b"}

\* An entry's field is written in a text as one of the literals
\*   "1", "2" (integers), "1e999" (a number beyond the double range),
\*   "str" (a string), "null", "missing" (the entry has no such field)
\* and is in memory one of the JavaScript values
\*   "1", "2", "Infinity", "NaN", "str", "null", "undefined".


EmptyDoc == [i \in {} |-> "1"]


\* A text: malformed, or the entries it spells, compact or indented.
Malformed == [wf |-> FALSE, pretty |-> FALSE, entries |-> EmptyDoc]

\* JSON.parse of one number/string/null literal: 1e999 overflows to Infinity.
ParseValue(lit) ==
    CASE lit = "1e999" -> "Infinity"
      [] lit = "missing" -> "undefined"
      [] OTHER -> lit

\* JSON.stringify of one value: non-finite numbers become null, undefined is omitted.
StringifyValue(v) ==
    CASE v \in {"Infinity", "NaN"} -> "null"
      [] v = "undefined" -> "missing"
      [] OTHER -> v

\* JSON.parse(text): throws a SyntaxError on a malformed text.
JsonParse(text) ==
    IF text.wf
    THEN [ok |-> TRUE, data |-> [i \in DOMAIN text.entries |-> ParseValue(text.entries[i])]]
    ELSE [ok |-> FALSE, data |-> EmptyDoc]

\* JSON.stringify(data, null, indent)
JsonStringify(data, indent) ==
    [wf |-> TRUE, pretty |-> indent,
     entries |-> [i \in DOMAIN data |-> StringifyValue(data[i])]]

\* readJson(filePath) of a data file; the files on disk are always well formed.
readJson(fs, key) == JsonParse(fs[key]).data

\* writeJson(filePath, data): the indented text (with its final newline).
writeJson(fs, key, data) == [fs EXCEPT ![key] = JsonStringify(data, TRUE)]

(***************************************************************************)
(* Schema validation: new Ajv({allErrors: true, strict: false})            *)
(***************************************************************************)
\* strict: false also switches strictNumbers off: NaN and Infinity count as numbers.
AjvStrictNumbers == FALSE

\* Ajv's check of {type: "integer"}:
\*   typeof data == "number" && !(data % 1) && !isNaN(data) [&& isFinite(data)]
IsInteger(v) ==
    \/ v \in {"1", "2"}
    \/ v = "Infinity" /\ ~AjvStrictNumbers

\* The per-entry sub-schema of the three schema documents, as far as entries are
\* modelled: the field is an integer.
EntrySchema == [type |-> "integer"]

\* One value against a schema.
Valid(schema, v) == schema.type = "integer" => IsInteger(v)

\* validate.errors with allErrors: one violation (path and message) per bad entry.
Violations(data) ==
    {[instancePath |-> i, message |-> "must be integer"] :
        i \in {j \in DOMAIN data : ~Valid(EntrySchema, data[j])}}

\* getValidator(key): compiles on first use and caches in validators.
getValidator(vs, key) == vs \cup {key}

(***************************************************************************)
(* Responses                                                               *)
(***************************************************************************)
NoResponse ==
    [status |-> 0, type |-> "none", error |-> "", details |-> {}, text |-> Malformed]

\* sendJson(res, status, data): the body is JSON.stringify(data), not indented.
sendJson(status, type, error, details, data) ==
    [status |-> status, type |-> type, error |-> error, details |-> details,
     text |-> JsonStringify(data, FALSE)]

\* notFound(res)
notFound ==
    [status |-> 404, type |-> "notfound", error |-> "Not found", details |-> {},
     text |-> Malformed]

(***************************************************************************)
(* handleApi                                                               *)
(***************************************************************************)
\* The 5_000_000 of "if (body.length > 5_000_000) req.destroy()".
MaxBodyLen == 5000000

Methods == {"GET", "POST", "PUT"}
ReqKeys == FileKeys \cup {"constructor", "__proto__", "nosuch"}
BodyLens == {1, MaxBodyLen, MaxBodyLen + 1}

\* The request bodies tried: the well-formed texts (compact), and a malformed one.
Compact(entries) == [wf |-> TRUE, pretty |-> FALSE, entries |-> entries]

BodyTexts ==
    {Compact(EmptyDoc),
     Compact([i \in {"a"} |-> "2"]),
     Compact([i \in Ids |-> IF i = "a" THEN "1" ELSE "1e999"]),
     Compact([i \in Ids |-> IF i = "a" THEN "str" ELSE "1"]),
     Malformed}

IdleConn ==
    [st |-> "idle", key |-> "", text |-> Malformed, total |-> 0, received |-> 0,
     res |-> NoResponse]

\* A path that ignores the file name and always names duas.json.
FilePathFixed(filename) == "duas"

\* The data file path.join(dataDir, filename) names.
FilePath(filename) == CHOOSE k \in FileKeys : FILES[k] = filename

\* An 'end' handler that writes before it validates.
HandlePostUngated(key, text, fs, vs) ==
    LET parsed == JsonParse(text)
        errors == Violations(parsed.data)
    IN  IF ~parsed.ok
        THEN [files |-> fs, validators |-> vs, written |-> FALSE,
              res |-> sendJson(400, "error", "SyntaxError", {}, EmptyDoc)]
        ELSE [files |-> writeJson(fs, key, parsed.data),
              validators |-> getValidator(vs, key), written |-> errors = {},
              res |-> IF errors # {}
                      THEN sendJson(400, "violations", "Schema validation failed", errors, EmptyDoc)
                      ELSE sendJson(200, "ok", "", {}, EmptyDoc)]

\* The 'end' handler of a POST: parse, validate, write, answer.  A throw of
\* JSON.parse is caught and answered with the error's message alone.
HandlePost(key, text, fs, vs) ==
    LET parsed == JsonParse(text)
        errors == Violations(parsed.data)
    IN  IF ~parsed.ok
        THEN [files |-> fs, validators |-> vs, written |-> FALSE,
              res |-> sendJson(400, "error", "SyntaxError", {}, EmptyDoc)]
        ELSE IF errors # {}
        THEN [files |-> fs, validators |-> getValidator(vs, key), written |-> FALSE,
              res |-> sendJson(400, "violations", "Schema validation failed", errors, EmptyDoc)]
        ELSE [files |-> writeJson(fs, FilePath(FILES[key]), parsed.data),
              validators |-> getValidator(vs, key), written |-> TRUE,
              res |-> sendJson(200, "ok", "", {}, EmptyDoc)]

Free(c) == conns[c].st # "receiving"

\* An uncaught exception in the request listener ends the process: the request
\* gets no answer and no later request is served.
Crash(c) ==
    /\ alive' = FALSE
    /\ conns' = [conns EXCEPT ![c] = [IdleConn EXCEPT !.st = "dropped"]]
    /\ UNCHANGED <<files, validators, accepted>>

Answer(c, res) ==
    /\ conns' = [conns EXCEPT ![c] = [IdleConn EXCEPT !.st = "responded", !.res = res]]
    /\ UNCHANGED <<alive, files, validators, accepted>>

\* POST /api/data/:key with a known key: the listeners are registered and the
\* body (text t, n characters long) starts to arrive.
Receive(c, k, t, n) ==
    /\ conns' = [conns EXCEPT ![c] = [IdleConn EXCEPT !.st = "receiving", !.key = k,
                                                      !.text = t, !.total = n]]
    /\ UNCHANGED <<alive, files, validators, accepted>>

\* /api/data/:key
RequestData(c, m, k, t, n) ==
    /\ alive /\ Free(c) /\ nreq < MaxRequests
    /\ nreq' = nreq + 1
    /\ LET filename == Lookup(FILES, k) IN
       IF Falsy(filename) THEN Answer(c, notFound)
       ELSE IF PathJoinThrows(filename) THEN Crash(c)
       ELSE IF m = "GET"
       THEN Answer(c, sendJson(200, "data", "", {}, readJson(files, FilePath(filename.value))))
       ELSE IF m = "POST" THEN Receive(c, k, t, n)
       ELSE Answer(c, notFound)
    /\ UNCHANGED <<editorVars, selectVars>>

\* /api/schema/:key (any method)
RequestSchema(c, m, k) ==
    /\ alive /\ Free(c) /\ nreq < MaxRequests
    /\ nreq' = nreq + 1
    /\ LET filename == Lookup(SCHEMAS, k) IN
       IF Falsy(filename) THEN Answer(c, notFound)
       ELSE IF PathJoinThrows(filename) THEN Crash(c)
       ELSE Answer(c, [status |-> 200, type |-> "schema", error |-> "", details |-> {},
                       text |-> Malformed])
    /\ UNCHANGED <<editorVars, selectVars>>

\* /api/<anything else>
RequestOther(c, m, k) ==
    /\ alive /\ Free(c) /\ nreq < MaxRequests
    /\ nreq' = nreq + 1
    /\ Answer(c, notFound)
    /\ UNCHANGED <<editorVars, selectVars>>

\* req.on('data'): a chunk of the body arrives; past the limit the request is destroyed.
Data(c) ==
    /\ alive /\ conns[c].st = "receiving"
    /\ conns[c].received < conns[c].total
    /\ \E len \in {conns[c].total - conns[c].received, MaxBodyLen} :
          /\ len <= conns[c].total - conns[c].received
          /\ LET length == conns[c].received + len IN
             conns' = [conns EXCEPT ![c] =
                          IF length > MaxBodyLen
                          THEN [IdleConn EXCEPT !.st = "destroyed"]
                          ELSE [@ EXCEPT !.received = length]]
    /\ UNCHANGED <<alive, files, validators, accepted, nreq, editorVars, selectVars>>

\* req.on('end'): the whole body has arrived.
End(c) ==
    /\ alive /\ conns[c].st = "receiving"
    /\ conns[c].received = conns[c].total
    /\ LET r == HandlePost(conns[c].key, conns[c].text, files, validators) IN
          /\ files' = r.files
          /\ validators' = r.validators
          /\ conns' = [conns EXCEPT ![c] = [IdleConn EXCEPT !.st = "responded", !.res = r.res]]
          /\ accepted' = IF r.written THEN [accepted EXCEPT ![conns[c].key] = conns[c].text]
                         ELSE accepted
    /\ UNCHANGED <<alive, nreq, editorVars, selectVars>>

(***************************************************************************)
(* Spec: the API under arbitrary requests                                  *)
(***************************************************************************)
\* The documents on disk at start: schema-valid, as writeJson left them.
InitialFiles ==
    [k \in FileKeys |-> JsonStringify([i \in Ids |-> "1"], TRUE)]

Sessions == {"s1", "s2"}

\* const state = {file: '', data: null, selectedKey: ''} and an empty page.
EditorInit ==
    /\ state = [s \in Sessions |-> [file |-> "", data |-> EmptyDoc, selectedKey |-> ""]]
    /\ statusEl = [s \in Sessions |-> ""]
    /\ readDoc = [s \in Sessions |-> EmptyDoc]
    /\ ops = [s \in Sessions |-> 0]

\* The selection engine before any call; the theme is of no interest here.
SelectIdle ==
    /\ theme = [required |-> <<>>, pool |-> <<>>, count |-> 0]
    /\ cache = [r \in {} |-> <<>>]
    /\ call = [roundKey |-> "", rand |-> FALSE, fresh |-> FALSE, out |-> <<>>]

ServerInit ==
    /\ alive = TRUE
    /\ files = InitialFiles
    /\ validators = {}
    /\ conns = [c \in Conn |-> IdleConn]
    /\ accepted = InitialFiles
    /\ nreq = 0

Init == ServerInit /\ EditorInit /\ SelectIdle

Next ==
    \/ \E c \in Conn, m \in Methods \ {"POST"}, k \in ReqKeys :
          RequestData(c, m, k, Malformed, 0)
    \/ \E c \in Conn, k \in ReqKeys, t \in BodyTexts, n \in BodyLens :
          RequestData(c, "POST", k, t, n)
    \/ \E c \in Conn, m \in Methods, k \in ReqKeys : RequestSchema(c, m, k)
    \/ \E c \in Conn, m \in Methods, k \in ReqKeys : RequestOther(c, m, k)
    \/ \E c \in Conn : Data(c)
    \/ \E c \in Conn : End(c)

Spec == Init /\ [][Next]_vars

(***************************************************************************)
(* The editor page (SPA)                                                   *)
(***************************************************************************)
\* What a user can put into the form of the selected entry: two valid values
\* and one the schema rejects.
FormInputs == {"1", "2", "str"}

\* The options of #fileSelect.
FileOptions == FileKeys \cup {""}

\* validateData(): state.validators[state.file](state.data)
validateData(data) == Violations(data) = {}

\* state.data[id] = entry
SetEntry(data, id, entry) ==
    [i \in DOMAIN data \cup {id} |-> IF i = id THEN entry ELSE data[i]]

\* delete state.data[id]
DeleteEntry(data, id) == [i \in DOMAIN data \ {id} |-> data[i]]

\* One more user action of session s, within the bound.
UserAction(s) ==
    /\ ops[s] < MaxSessionOps
    /\ ops' = [ops EXCEPT ![s] = @ + 1]

\* fileSelect 'change' and loadFile: both fetches are answered by the server,
\* state.data becomes the parsed response and the status is cleared.
FileSelectChange(s, f) ==
    /\ alive
    /\ UserAction(s)
    /\ IF f = ""
       THEN /\ state' = [state EXCEPT ![s].file = f, ![s].selectedKey = ""]
            /\ UNCHANGED <<statusEl, readDoc>>
       ELSE LET response == sendJson(200, "data", "", {}, readJson(files, FilePath(FILES[f])))
                data == JsonParse(response.text).data
            IN  /\ state' = [state EXCEPT ![s] = [file |-> f, data |-> data, selectedKey |-> ""]]
                /\ statusEl' = [statusEl EXCEPT ![s] = ""]
                /\ readDoc' = [readDoc EXCEPT ![s] = data]
    /\ UNCHANGED <<serverVars, selectVars>>

\* A click on an entry of the list: select it and render its form.
ListClick(s, id) ==
    /\ UserAction(s)
    /\ state[s].file # ""
    /\ id \in DOMAIN state[s].data
    /\ state' = [state EXCEPT ![s].selectedKey = id]
    /\ UNCHANGED <<statusEl, readDoc, serverVars, selectVars>>

\* addBtn 'click': a new entry {id} is put into state.data and selected.
AddClick(s, id) ==
    /\ UserAction(s)
    /\ state[s].file # ""
    /\ id \notin DOMAIN state[s].data
    /\ state' = [state EXCEPT ![s].selectedKey = id,
                              ![s].data = SetEntry(@, id, "undefined")]
    /\ UNCHANGED <<statusEl, readDoc, serverVars, selectVars>>

\* An 'input' or 'change' event of the form: collectForm() stores the entry.
FormInput(s, v) ==
    /\ UserAction(s)
    /\ state[s].file # ""
    /\ state[s].selectedKey # ""
    /\ state' = [state EXCEPT ![s].data = SetEntry(@, state[s].selectedKey, v)]
    /\ UNCHANGED <<statusEl, readDoc, serverVars, selectVars>>

\* saveBtn 'click': collectForm(true), then saveAll(): validate, POST the whole
\* document, show the outcome.  The POST is handled by the server's 'end'
\* handler; a document that fails validateData() is not sent.
SaveClick(s) ==
    /\ alive
    /\ UserAction(s)
    /\ state[s].file # ""
    /\ state[s].selectedKey # ""
    /\ IF ~validateData(state[s].data)
       THEN UNCHANGED <<files, validators, accepted, statusEl>>
       ELSE LET body == JsonStringify(state[s].data, FALSE)
                r == HandlePost(state[s].file, body, files, validators)
            IN  /\ files' = r.files
                /\ validators' = r.validators
                /\ accepted' = IF r.written THEN [accepted EXCEPT ![state[s].file] = body]
                               ELSE accepted
                /\ statusEl' = [statusEl EXCEPT ![s] =
                       IF r.res.status = 200 THEN "Saved" ELSE "Save failed"]
    /\ UNCHANGED <<state, readDoc, alive, conns, nreq, selectVars>>

\* deleteBtn 'click' (confirmed): the entry leaves state.data, nothing is
\* selected, the list and the form are rendered again.
DeleteClick(s) ==
    /\ UserAction(s)
    /\ state[s].file # ""
    /\ state[s].selectedKey # ""
    /\ state' = [state EXCEPT ![s].data = DeleteEntry(@, state[s].selectedKey),
                              ![s].selectedKey = ""]
    /\ UNCHANGED <<statusEl, readDoc, serverVars, selectVars>>

NextEditor ==
    \/ \E s \in Sessions, f \in FileOptions : FileSelectChange(s, f)
    \/ \E s \in Sessions, id \in Ids : ListClick(s, id)
    \/ \E s \in Sessions, id \in Ids : AddClick(s, id)
    \/ \E s \in Sessions, v \in FormInputs : FormInput(s, v)
    \/ \E s \in Sessions : SaveClick(s)
    \/ \E s \in Sessions : DeleteClick(s)

SpecEditor == Init /\ [][NextEditor]_vars


(***************************************************************************)
(* Properties of the API (Spec)                                            *)
(***************************************************************************)
\* The body passes JSON.parse and the schema validator.
Passes(text) == JsonParse(text).ok /\ Violations(JsonParse(text).data) = {}

\* C1: a write whose body fails validation (or does not parse) leaves every
\* persisted document byte for byte as it was.
C1_RejectedWriteCommitsNothing ==
    [][\A c \in Conn : (End(c) /\ ~Passes(conns[c].text)) => files' = files]_vars

\* A write has been rejected with a list of violations.
C1_Witness ==
    \E c \in Conn : conns[c].st = "responded" /\ conns[c].res.type = "violations"

\* C2: every persisted document is schema-valid and is the initial document or
\* the body of the most recent write to that fileKey that passed validation.
C2_PersistedValidAndLastAccepted ==
    \A k \in FileKeys :
        /\ Violations(readJson(files, k)) = {}
        /\ readJson(files, k) = JsonParse(accepted[k]).data

\* C3: a request to the data or schema endpoint with an unknown key is
\* answered 'not found', touches no file and leaves the service running.
C3_UnknownKeyNotFound ==
    [][\A c \in Conn, m \in Methods, k \in ReqKeys \ FileKeys :
          (RequestData(c, m, k, Malformed, 0) \/ RequestSchema(c, m, k))
              => /\ conns'[c].res = notFound
                 /\ files' = files
                 /\ alive']_vars

\* C5: a write request ends either in success with the document committed or in
\* a rejection that lists the schema violations with nothing committed.
C5_SuccessOrViolationList ==
    [][\A c \in Conn :
          (conns[c].st = "receiving" /\ conns'[c].st # "receiving")
              => \/ /\ conns'[c].res.status = 200
                    /\ conns'[c].res.type = "ok"
                    /\ files'[conns[c].key] = JsonStringify(JsonParse(conns[c].text).data, TRUE)
                 \/ /\ conns'[c].res.status = 400
                    /\ conns'[c].res.details # {}
                    /\ files' = files]_vars

\* C10: a read of a document or of a schema changes no file, and the document
\* read is the one on disk; only the end of a write to fileKey k changes the
\* file of k, and it changes no other file.
C10_Frame ==
    [][/\ \A k \in FileKeys :
             files'[k] # files[k] => \E c \in Conn : End(c) /\ conns[c].key = k
       /\ \A c \in Conn :
             (conns'[c] # conns[c] /\ conns'[c].res.type \in {"data", "schema"})
                 => files' = files
       /\ \A c \in Conn, k \in FileKeys :
             (conns'[c] # conns[c] /\ RequestData(c, "GET", k, Malformed, 0))
                 => conns'[c].res.text = JsonStringify(JsonParse(files[k]).data, FALSE)]_vars

\* A document has been read back after a write changed one of the files.
C10_Witness ==
    /\ \E c \in Conn : conns[c].st = "responded" /\ conns[c].res.type = "data"
    /\ \E k \in FileKeys : files[k] # InitialFiles[k]

(***************************************************************************)
(* Properties of the editor (SpecEditor)                                   *)
(***************************************************************************)
EntryOf(data, i) == IF i \in DOMAIN data THEN data[i] ELSE "absent"

\* The entries session s has changed since it read the document.
Changed(s) == {i \in Ids : EntryOf(state[s].data, i) # EntryOf(readDoc[s], i)}

\* The text on disk holds entry i as data has it.
Holds(text, data, i) == EntryOf(JsonParse(text).data, i) = EntryOf(data, i)

\* C4: two sessions read the same document of one fileKey and change different
\* entries; session t's save is on disk; when session s saves its schema-valid
\* document too, the persisted document holds the changes of both.
C4_NoLostUpdate ==
    [][\A s \in Sessions : \A t \in Sessions \ {s} :
          ( /\ SaveClick(s)
            /\ validateData(state[s].data)
            /\ state[t].file = state[s].file
            /\ readDoc[t] = readDoc[s]
            /\ Changed(s) # {} /\ Changed(t) # {}
            /\ Changed(s) \cap Changed(t) = {}
            /\ statusEl[t] = "Saved"
            /\ files[state[t].file] = JsonStringify(state[t].data, TRUE) )
          => /\ \A i \in Changed(s) : Holds(files'[state[s].file], state[s].data, i)
             /\ \A i \in Changed(t) : Holds(files'[state[s].file], state[t].data, i)]_vars

\* C6: a Save of a schema-valid document and a Delete that leaves the document
\* schema-valid are each followed by the write of the whole document: after the
\* click the persisted document is the session's document (the deleted id is gone).
C6_IdScopedOperationsAreWritten ==
    [][\A s \in Sessions :
          /\ (SaveClick(s) /\ validateData(state[s].data))
                => files'[state[s].file] = JsonStringify(state'[s].data, TRUE)
          /\ (DeleteClick(s) /\ validateData(state'[s].data))
                => /\ files'[state[s].file] = JsonStringify(state'[s].data, TRUE)
                   /\ state[s].selectedKey \notin DOMAIN readJson(files', state[s].file)]_vars

(***************************************************************************)
(* The dua selection engine                                                *)
(***************************************************************************)
\* The ids of the dua table, and one id no dua has.
DuaTable == {"a", "b"}
DuaIds == DuaTable \cup {"x"}

RoundKeys == {"tawaf-umrah-1", "sai-umrah-1"}

Lists == UNION {[1..n -> DuaIds] : n \in 0..MaxIds}

\* theme.duas: required, pool and count; a count may exceed the pool's size.
\* The themes tried list at most MaxIds ids in required and pool together.
Counts == {0, 1, 2, 10}
Themes ==
    {t \in [required : Lists, pool : Lists, count : Counts] :
        Len(t.required) + Len(t.pool) <= MaxIds}

Min(x, y) == IF x <= y THEN x ELSE y

Range(seq) == {seq[i] : i \in 1..Len(seq)}

RECURSIVE DedupFrom(_, _)
DedupFrom(seen, seq) ==
    IF seq = <<>> THEN <<>>
    ELSE IF Head(seq) \in seen THEN DedupFrom(seen, Tail(seq))
    ELSE <<Head(seq)>> \o DedupFrom(seen \cup {Head(seq)}, Tail(seq))

\* A list that keeps its duplicates.
DedupNone(seq) == seq

\* The list in its order with duplicates removed.
Dedup(seq) == DedupFrom({}, seq)

\* Ids the dua table does not hold are dropped.
Resolvable(seq) == SelectSeq(seq, LAMBDA id : id \in DuaTable)

\* Step 2a: the required ids.
RequiredPart(t) == Resolvable(Dedup(t.required))

\* The draws of k distinct places of the pool, in the order drawn.
Draws(t) ==
    LET k == Min(t.count, Len(t.pool)) IN
    {d \in [1..k -> 1..Len(t.pool)] : \A i, j \in 1..k : i # j => d[i] # d[j]}

\* Every drawn id is appended, present or not.
AppendAll(base, drawn) == base \o Resolvable(drawn)

\* Step 2c: the drawn ids follow in the order drawn; an id already present is skipped.
AppendNew(base, drawn) == base \o DedupFrom(Range(base), Resolvable(drawn))

\* Step 2b: nothing is drawn from the pool.
RequiredOnly(t, rand) == ~rand \/ t.count = 0 \/ t.pool = <<>>

\* The outcomes of the random source for one call.
DrawsFor(t, rand) == IF RequiredOnly(t, rand) THEN {<<>>} ELSE Draws(t)

\* Step 2: a fresh selection for a theme under one draw.
FreshSelection(t, rand, draw) ==
    IF RequiredOnly(t, rand)
    THEN RequiredPart(t)
    ELSE AppendNew(RequiredPart(t), [i \in DOMAIN draw |-> t.pool[draw[i]]])

NoEntry == [present |-> FALSE, ids |-> <<>>]

\* A selection that is computed anew on every call.
SelectionUncached(entry, t, rand, draw) ==
    [fresh |-> TRUE, out |-> FreshSelection(t, rand, draw)]

\* Steps 1 and 2: the cached entry if there is one, a fresh selection otherwise.
Selection(entry, t, rand, draw) ==
    IF entry.present THEN [fresh |-> FALSE, out |-> entry.ids]
    ELSE [fresh |-> TRUE, out |-> FreshSelection(t, rand, draw)]

\* selectDuasForRound(theme, roundKey, randomizationEnabled, cache)
selectDuasForRound(rk, rand, draw) ==
    /\ LET r == Selection(cache[rk], theme, rand, draw) IN
          /\ cache' = [cache EXCEPT ![rk] = [present |-> TRUE, ids |-> r.out]]
          /\ call' = [roundKey |-> rk, rand |-> rand, fresh |-> r.fresh, out |-> r.out]
    /\ UNCHANGED <<theme, serverVars, editorVars>>

\* invalidateSelection(state, roundKey)
invalidateSelection(rk) ==
    /\ cache[rk].present
    /\ cache' = [cache EXCEPT ![rk] = NoEntry]
    /\ UNCHANGED <<theme, call, serverVars, editorVars>>

SelectInit ==
    /\ theme \in Themes
    /\ cache = [rk \in RoundKeys |-> NoEntry]
    /\ call = [roundKey |-> "", rand |-> FALSE, fresh |-> FALSE, out |-> <<>>]

InitSelect == ServerInit /\ EditorInit /\ SelectInit

NextSelect ==
    \/ \E rk \in RoundKeys, rand \in BOOLEAN : \E draw \in DrawsFor(theme, rand) :
          selectDuasForRound(rk, rand, draw)
    \/ \E rk \in RoundKeys : invalidateSelection(rk)

SpecSelect == InitSelect /\ [][NextSelect]_vars

(***************************************************************************)
(* Properties of the selection engine (SpecSelect)                         *)
(***************************************************************************)
\* The distinct required ids the dua table holds, and their number R'.
RequiredIds == Range(theme.required) \cap DuaTable
RPrime == Cardinality(RequiredIds)

FirstIndex(seq, id) == CHOOSE i \in 1..Len(seq) : seq[i] = id /\ \A j \in 1..(i - 1) : seq[j] # id

\* C7: once the cache holds an entry for a roundKey, every call for that
\* roundKey returns the entry's ids and leaves the entry as it is, whatever the
\* flag, the draw and the calls for other roundKeys; only invalidateSelection
\* for that roundKey removes it.
C7_SelectionConsistency ==
    [][\A rk \in RoundKeys :
          cache[rk].present =>
              \/ /\ cache'[rk] = cache[rk]
                 /\ (call' # call /\ call'.roundKey = rk)
                        => call'.out = cache[rk].ids /\ ~call'.fresh
              \/ /\ cache'[rk] = NoEntry
                 /\ call' = call
                 /\ \A other \in RoundKeys \ {rk} : cache'[other] = cache[other]]_vars

\* A cached selection with pool ids was returned to a call with randomization off,
\* while the other roundKey has an entry too.
C7_Witness ==
    /\ ~call.fresh /\ ~call.rand
    /\ Len(call.out) > RPrime
    /\ \A rk \in RoundKeys : cache[rk].present

\* C8 as stated: the length of a fresh selection is R' + min(C, P).
C8_LengthAsStated ==
    call.fresh => Len(call.out) = RPrime + Min(theme.count, Len(theme.pool))

\* The pool's ids are distinct, held by the dua table and not required.
CleanPool ==
    /\ \A i, j \in 1..Len(theme.pool) : i # j => theme.pool[i] # theme.pool[j]
    /\ Range(theme.pool) \subseteq DuaTable
    /\ Range(theme.pool) \cap Range(theme.required) = {}

\* C8 amended: with randomization on and a pool of distinct, resolvable ids that
\* are not required, the length of a fresh selection is R' + min(C, P); it is
\* never more than that, and it is R' with randomization off.
C8_Length ==
    call.fresh =>
        /\ Len(call.out) <= RPrime + Min(theme.count, Len(theme.pool))
        /\ Len(call.out) >= RPrime
        /\ ~call.rand => Len(call.out) = RPrime
        /\ (call.rand /\ CleanPool)
              => Len(call.out) = RPrime + Min(theme.count, Len(theme.pool))

\* A fresh selection whose count was clamped to the size of the pool.
C8_Witness ==
    /\ call.fresh /\ call.rand /\ CleanPool
    /\ RPrime > 0
    /\ theme.count > Len(theme.pool) /\ Len(theme.pool) > 0
    /\ Len(call.out) = RPrime + Len(theme.pool)

====
